---- MODULE Spec2Model ----
(***************************************************************************)
(* hurlfmt: the orchestration pipeline of packages/hurlfmt/src/main.rs.    *)
(*                                                                         *)
(* main() parses the options, then for each input file in list order       *)
(* reads it, adapts it from curl syntax when asked, parses it, and either  *)
(* lints it (check mode) or renders it (transform mode); rendered output   *)
(* is written back in place or appended to output_all, which is written    *)
(* once after the loop.  Every failure leaves the process through          *)
(* process::exit or a panic.                                               *)
(*                                                                         *)
(* A text is a sequence of one-character strings.  The collaborators that  *)
(* main() calls (reader, curl adapter, parser, linter, formatters) live    *)
(* outside main.rs; they are modelled as total functions over texts that   *)
(* keep the shape of their contracts (Result / Vec / String).              *)
(***************************************************************************)
EXTENDS Integers, Sequences, FiniteSets, TLC

\* ------------------------------------------------------------------ bounds
\* characters held by the input files altogether when the run starts
MaxChars == 2
\* longest input list (opts.input_files)
MaxInputs == 2

\* ------------------------------------------------------- program constants
EXIT_OK == 0
EXIT_ERROR == 1
EXIT_INVALID_INPUT == 2
EXIT_LINT_ISSUE == 3
\* exit status of a Rust process whose main thread panics (.expect on Err)
EXIT_PANIC == 101

\* ------------------------------------------------------------------- texts
NL == "\n"
\* characters of an input file: a clean line, an irregular line, a malformed
\* line, a line terminator
InputChar == {"g", "w", "x", NL}
Texts == UNION {[1..k -> InputChar] : k \in 0..MaxChars}

\* the paths the input list draws from, and the path of --output
Paths == {"f1", "f2"}
OutPath == "out"
\* Option<PathBuf>::None
None == "None"

\* str::ends_with('\n')
ends_with_nl(s) == Len(s) > 0 /\ s[Len(s)] = NL

\* String::push_str
push_str(s, t) == s \o t

RECURSIVE MapText(_, _)
\* the text that replaces every element of s by the text F[c]
MapText(F, s) == IF s = <<>> THEN <<>> ELSE F[Head(s)] \o MapText(F, Tail(s))

\* positions of s whose element is in S, in increasing order
RECURSIVE Positions(_, _, _)
Positions(s, S, from) ==
    IF from > Len(s) THEN <<>>
    ELSE (IF s[from] \in S THEN <<from>> ELSE <<>>) \o Positions(s, S, from + 1)

\* ----------------------------------------------------------- collaborators
\* characters that neither the curl adapter nor the Hurl parser accepts: the
\* malformed line, and the characters only the JSON and HTML exports produce
Malformed == {"x", "j", "J", "h", "H", "<", ">"}

\* cli::read_to_string: the content of the file, or Err when it can not be read
read_to_string(files, input_file) ==
    [ok |-> files[input_file].readable, content |-> files[input_file].data]

\* what one curl line becomes in Hurl syntax: a clean entry, or (for an
\* irregular command) text that the Hurl parser rejects
CurlLine == [c \in {"g", "w", NL} |->
    CASE c = "g" -> <<"g", NL>>
      [] c = "w" -> <<"x", NL>>
      [] OTHER   -> <<>>]

\* curl::parse: empty lines are skipped, each curl line is translated and
\* terminated; a line that is no curl command is an Err naming its position
curl_parse(content) ==
    LET bad == Positions(content, Malformed, 1) IN
    IF bad # <<>> THEN [ok |-> FALSE, s |-> <<>>, pos |-> bad[1]]
    ELSE [ok |-> TRUE, s |-> MapText(CurlLine, content), pos |-> 0]

\* the node the parser builds for one character: entry, entry with a lint
\* issue, line terminator
Node == [c \in {"g", "w", NL} |->
    CASE c = "g" -> <<"E">>
      [] c = "w" -> <<"D">>
      [] OTHER   -> <<"L">>]

\* parser::parse_hurl_file: Err with the position of the first malformed
\* character of the text it is given, else the document
parse_hurl_file(text) ==
    LET bad == Positions(text, Malformed, 1) IN
    IF bad # <<>> THEN [ok |-> FALSE, doc |-> <<>>, pos |-> bad[1]]
    ELSE [ok |-> TRUE, doc |-> MapText(Node, text), pos |-> 0]

\* linter::check_hurl_file: one finding per entry with a lint issue, in
\* document order; a finding is the position of the entry
check_hurl_file(doc) == Positions(doc, {"D"}, 1)

\* linter::lint_hurl_file: the document with every lint issue fixed
lint_hurl_file(doc) == [i \in 1..Len(doc) |-> IF doc[i] = "D" THEN "E" ELSE doc[i]]

TextOf == [n \in {"E", "D", "L"} |->
    CASE n = "E" -> <<"g">> [] n = "D" -> <<"w">> [] OTHER -> <<NL>>]
JsonOf == [n \in {"E", "D", "L"} |->
    CASE n = "E" -> <<"j">> [] n = "D" -> <<"J">> [] OTHER -> <<>>]
HtmlOf == [n \in {"E", "D", "L"} |->
    CASE n = "E" -> <<"h">> [] n = "D" -> <<"H">> [] OTHER -> <<NL>>]

\* format::format_text
format_text(doc) == MapText(TextOf, doc)
\* format::format_json: whitespace is not part of the JSON export
format_json(doc) == MapText(JsonOf, doc)
\* hurl_core::format::format_html: a standalone page wraps the markup
format_html(doc, standalone) ==
    IF standalone THEN <<"<">> \o MapText(HtmlOf, doc) \o <<">">>
    ELSE MapText(HtmlOf, doc)

\* ------------------------------------------------------------------- state
VARIABLES
    opts,        \* result of cli::options::parse(): the options, or Info / Error
    fs,          \* the files: path -> [readable, data]
    fs0,         \* the files as they were when main() was entered
    pc,          \* position of main()
    idx,         \* position of the for loop in opts.input_files (1-based)
    content,     \* text read from the current input file
    input,       \* text handed to the parser
    hurl_file,   \* parsed document of the current input
    output,      \* rendered output of the current input
    output_all,  \* the accumulated output
    calls,       \* collaborator calls made so far, <<name, idx>>
    writes,      \* write_output calls made so far
    stdout,      \* bytes on standard output
    stderr,      \* messages on standard error, in order
    exit         \* <<>> while running, <<status>> once the process has left

vars == <<opts, fs, fs0, pc, idx, content, input, hurl_file, output, output_all,
          calls, writes, stdout, stderr, exit>>

\* the message of OptionsError::Info / OptionsError::Error
Message == <<"m">>

InputFormat == {"Hurl", "Curl"}
OutputFormat == {"Hurl", "Json", "Html"}

\* opts.input_files: any list of paths, the same path any number of times;
\* paths are interchangeable, so the first one listed is called f1
InputLists ==
    {l \in UNION {[1..k -> Paths] : k \in 0..MaxInputs} : l = <<>> \/ l[1] = "f1"}

\* the Options that cli::options::parse() can return, one field per option
\* main() reads; standalone is only read by the HTML export; opts.color only
\* colours what the logger and format_text print and is left out
Options ==
    {o \in [parse : {"Ok"}, input_files : InputLists, input_format : InputFormat,
            check : BOOLEAN, output_format : OutputFormat, standalone : BOOLEAN,
            in_place : BOOLEAN, output_file : {None, OutPath}] :
        o.standalone => o.output_format = "Html"}

\* an Err of cli::options::parse(): no field but the message kind is read
OptionsErrors ==
    [parse : {"Info", "Error"}, input_files : {<<>>}, input_format : {"Hurl"},
     check : {FALSE}, output_format : {"Hurl"}, standalone : {FALSE},
     in_place : {FALSE}, output_file : {None}]

FileStates == [readable : {TRUE}, data : Texts] \cup [readable : {FALSE}, data : {<<>>}]

\* a path that holds no file
Absent == [readable |-> FALSE, data |-> <<>>]

\* the files a path of the input list can hold: any text within what the
\* bound leaves, or a file that can not be read; another path holds none
FilesAt(p, listed, room) ==
    IF p \in listed
    THEN {f \in FileStates : Len(f.data) <= room}
    ELSE {Absent}

\* the state when main() is entered: the paths of the input list hold any
\* files within the bound, every other path holds none
Init ==
    /\ opts \in Options \cup OptionsErrors
    /\ LET listed == {opts.input_files[i] : i \in DOMAIN opts.input_files} IN
       \E a \in FilesAt("f1", listed, MaxChars) :
       \E b \in FilesAt("f2", listed, MaxChars - Len(a.data)) :
          fs = [p \in Paths \cup {OutPath} |->
                   IF p = "f1" THEN a ELSE IF p = "f2" THEN b ELSE Absent]
    /\ fs0 = fs
    /\ pc = "options"
    /\ idx = 1
    /\ content = <<>>
    /\ input = <<>>
    /\ hurl_file = <<>>
    /\ output = <<>>
    /\ output_all = <<>>
    /\ calls = <<>>
    /\ writes = <<>>
    /\ stdout = <<>>
    /\ stderr = <<>>
    /\ exit = <<>>

\* a line on standard error
Msg(kind, text, file, pos) == [kind |-> kind, text |-> text, file |-> file, pos |-> pos]

\* process::exit(status), after the message (if any) is on standard error
Exit(status) == /\ exit' = <<status>>
                /\ pc' = "exited"

\* mutant of input_file: every pass of the loop takes the first input
input_file_first == opts.input_files[1]

\* the current input file of the loop
input_file == opts.input_files[idx]

\* mutant of invalid_input: the failure leaves the loop instead of the process
invalid_input_break == pc' = "final" /\ exit' = exit

\* a failed read, adaptation or parse: process::exit(EXIT_INVALID_INPUT)
\* (l.63, l.71, l.110)
invalid_input == Exit(EXIT_INVALID_INPUT)

\* mutant of dispatch: check mode falls through to rendering
dispatch_render == "render"

\* l.74: which branch a parsed document takes
dispatch == IF opts.check THEN "check" ELSE "render"

\* mutant of lint_status: the two exits of check mode swapped
lint_status_swapped(lints) == IF lints = <<>> THEN EXIT_LINT_ISSUE ELSE EXIT_OK

\* l.79-83: the exit status of check mode
lint_status(lints) == IF lints = <<>> THEN EXIT_OK ELSE EXIT_LINT_ISSUE

\* mutant of warn_lints: only the first finding is reported
warn_lints_first(lints) ==
    [k \in 1..(IF lints = <<>> THEN 0 ELSE 1) |->
        Msg("warn_lint", content, input_file, lints[k])]

\* l.76-78: one warning per finding, logged with content and the input file
warn_lints(lints) ==
    [k \in 1..Len(lints) |-> Msg("warn_lint", content, input_file, lints[k])]

\* mutant of accumulate: the output replaces what was accumulated
accumulate_overwrite(out) == out

\* l.99: output_all.push_str(&output)
accumulate(out) == push_str(output_all, out)

\* mutant of combined: the write after the loop is made whatever the policy
combined_always == TRUE

\* l.114: the accumulated output is written unless the inputs were rewritten
combined == ~opts.in_place

\* mutant of options_status: the informational message is taken for an error
options_status_error(kind) == EXIT_ERROR

\* l.39-46: the exit status of an Err of cli::options::parse()
options_status(kind) == IF kind = "Info" THEN EXIT_OK ELSE EXIT_ERROR

\* mutant of canonical: the parsed document is formatted as it is
canonical_skipped(doc) == doc

\* l.87: the document that format_text is given
canonical(doc) == lint_hurl_file(doc)

\* mutant of in_place_target: every output goes to the first input file
in_place_target_first == opts.input_files[1]

\* l.96: the file an input is rewritten to
in_place_target == input_file

\* top of the for loop (l.53), after the previous iteration or at entry
LoopHead(i) == IF i <= Len(opts.input_files) THEN "read" ELSE "final"

\* a collaborator call
Call(fn, i, arg) == [fn |-> fn, idx |-> i, arg |-> arg]

\* mutant of write_bytes: the terminator is appended whatever the content
write_bytes_always(text) == text \o <<NL>>

\* write_output, l.131-136: the bytes handed to the destination
write_bytes(text) ==
    IF ~ends_with_nl(text) THEN text \o <<NL>> ELSE text

\* how a write can end: File::create fails (l.148), write_all fails (l.142-144,
\* l.154-155), or both succeed; standard output is never created
WriteResults(filename) ==
    IF filename = None THEN {"ok", "write_failed"}
    ELSE {"ok", "create_failed", "write_failed"}

\* write_output(content, filename), l.130-158, called for loop position i
\* (0: the call after the loop); control continues at next when it returns
write_output(text, filename, i, next) ==
    LET bytes == write_bytes(text) IN
    \E res \in WriteResults(filename) :
        /\ writes' = Append(writes, [idx |-> i, filename |-> filename, content |-> text,
                                      bytes |-> bytes, result |-> res])
        /\ CASE res = "ok" ->
                  /\ IF filename = None
                     THEN stdout' = stdout \o bytes /\ fs' = fs
                     ELSE fs' = [fs EXCEPT ![filename].data = bytes] /\ stdout' = stdout
                  /\ stderr' = stderr
                  /\ exit' = exit
                  /\ pc' = next
             [] res = "create_failed" ->
                  /\ stderr' = Append(stderr, Msg("write", <<>>, filename, 0))
                  /\ UNCHANGED <<fs, stdout>>
                  /\ Exit(EXIT_ERROR)
             [] OTHER ->
                  \* .expect() panics; File::create has truncated the file and
                  \* write_all may have written any proper prefix of the bytes
                  /\ \E n \in 0..(Len(bytes) - 1) :
                        IF filename = None
                        THEN stdout' = stdout \o SubSeq(bytes, 1, n) /\ fs' = fs
                        ELSE fs' = [fs EXCEPT ![filename].data = SubSeq(bytes, 1, n)]
                             /\ stdout' = stdout
                  /\ stderr' = Append(stderr, Msg("panic", <<>>, filename, 0))
                  /\ Exit(EXIT_PANIC)

\* l.36-48: the options, or the message and process::exit
ParseOptions ==
    /\ pc = "options"
    /\ CASE opts.parse = "Info" ->
              /\ stdout' = stdout \o Message
              /\ stderr' = stderr
              /\ Exit(options_status("Info"))
         [] opts.parse = "Error" ->
              /\ stderr' = Append(stderr, Msg("options", Message, None, 0))
              /\ stdout' = stdout
              /\ Exit(options_status("Error"))
         [] OTHER ->
              /\ pc' = LoopHead(idx)
              /\ UNCHANGED <<stdout, stderr, exit>>
    /\ UNCHANGED <<opts, fs0, fs, idx, content, input, hurl_file, output, output_all,
                   calls, writes>>

\* l.54-55, l.105-111: read the current input file
ReadInput ==
    /\ pc = "read"
    /\ LET r == read_to_string(fs, input_file) IN
       /\ calls' = Append(calls, Call("read_to_string", idx, <<input_file>>))
       /\ IF r.ok
          THEN /\ content' = r.content
               /\ pc' = "adapt"
               /\ UNCHANGED <<stderr, exit>>
          ELSE /\ stderr' = Append(stderr, Msg("read", <<>>, input_file, 0))
               /\ content' = content
               /\ invalid_input
    /\ UNCHANGED <<opts, fs0, fs, idx, input, hurl_file, output, output_all, writes, stdout>>

\* l.57-66: the text to parse
Adapt ==
    /\ pc = "adapt"
    /\ IF opts.input_format = "Hurl"
       THEN /\ input' = content
            /\ pc' = "parse"
            /\ UNCHANGED <<calls, stderr, exit>>
       ELSE LET r == curl_parse(content) IN
            /\ calls' = Append(calls, Call("curl_parse", idx, content))
            /\ IF r.ok
               THEN /\ input' = r.s
                    /\ pc' = "parse"
                    /\ UNCHANGED <<stderr, exit>>
               ELSE /\ stderr' = Append(stderr, Msg("curl", <<>>, None, r.pos))
                    /\ input' = input
                    /\ invalid_input
    /\ UNCHANGED <<opts, fs0, fs, idx, content, hurl_file, output, output_all, writes, stdout>>

\* l.68-73: parse; on Err the diagnostic is logged with content (l.70)
Parse ==
    /\ pc = "parse"
    /\ LET r == parse_hurl_file(input) IN
       /\ calls' = Append(calls, Call("parse_hurl_file", idx, input))
       /\ IF r.ok
          THEN /\ hurl_file' = r.doc
               /\ pc' = dispatch
               /\ UNCHANGED <<stderr, exit>>
          ELSE /\ stderr' = Append(stderr, Msg("error_parsing", content, input_file, r.pos))
               /\ hurl_file' = hurl_file
               /\ invalid_input
    /\ UNCHANGED <<opts, fs0, fs, idx, content, input, output, output_all, writes, stdout>>

\* mutant of Check: an input without finding lets the loop go on
Check_continue ==
    /\ pc = "check"
    /\ LET lints == check_hurl_file(hurl_file) IN
       /\ calls' = Append(calls, Call("check_hurl_file", idx, hurl_file))
       /\ stderr' = stderr \o warn_lints(lints)
       /\ IF lints = <<>>
          THEN pc' = LoopHead(idx + 1) /\ idx' = idx + 1 /\ exit' = exit
          ELSE Exit(EXIT_LINT_ISSUE) /\ idx' = idx
    /\ UNCHANGED <<opts, fs0, fs, content, input, hurl_file, output, output_all,
                   writes, stdout>>

\* l.74-83: check mode
Check ==
    /\ pc = "check"
    /\ LET lints == check_hurl_file(hurl_file) IN
       /\ calls' = Append(calls, Call("check_hurl_file", idx, hurl_file))
       /\ stderr' = stderr \o warn_lints(lints)
       /\ Exit(lint_status(lints))
    /\ UNCHANGED <<opts, fs0, fs, idx, content, input, hurl_file, output, output_all,
                   writes, stdout>>

\* l.85-94: transform mode, the rendered output
Render ==
    /\ pc = "render"
    /\ CASE opts.output_format = "Hurl" ->
              LET fixed == canonical(hurl_file) IN
              /\ calls' = calls \o <<Call("lint_hurl_file", idx, hurl_file),
                                     Call("format_text", idx, fixed)>>
              /\ output' = format_text(fixed)
         [] opts.output_format = "Json" ->
              /\ calls' = Append(calls, Call("format_json", idx, hurl_file))
              /\ output' = format_json(hurl_file)
         [] OTHER ->
              /\ calls' = Append(calls, Call("format_html", idx, hurl_file))
              /\ output' = format_html(hurl_file, opts.standalone)
    /\ pc' = "route"
    /\ UNCHANGED <<opts, fs0, fs, idx, content, input, hurl_file, output_all, writes,
                   stdout, stderr, exit>>

\* l.95-100: write in place, or append to output_all; then the next input
Route ==
    /\ pc = "route"
    /\ IF opts.in_place
       THEN /\ write_output(output, in_place_target, idx, LoopHead(idx + 1))
            /\ output_all' = output_all
       ELSE /\ output_all' = accumulate(output)
            /\ pc' = LoopHead(idx + 1)
            /\ UNCHANGED <<fs, writes, stdout, stderr, exit>>
    /\ idx' = IF pc' = "exited" THEN idx ELSE idx + 1
    /\ UNCHANGED <<opts, fs0, content, input, hurl_file, output, calls>>

\* l.114-117: after the loop; main returns, the process leaves with 0
Final ==
    /\ pc = "final"
    /\ IF combined
       THEN write_output(output_all, opts.output_file, 0, "return")
       ELSE /\ pc' = "return"
            /\ UNCHANGED <<fs, writes, stdout, stderr, exit>>
    /\ UNCHANGED <<opts, fs0, idx, content, input, hurl_file, output, output_all, calls>>

\* l.117: main returns
Return ==
    /\ pc = "return"
    /\ Exit(EXIT_OK)
    /\ UNCHANGED <<opts, fs0, fs, idx, content, input, hurl_file, output, output_all,
                   calls, writes, stdout, stderr>>

Next ==
    \/ ParseOptions
    \/ ReadInput
    \/ Adapt
    \/ Parse
    \/ Check
    \/ Render
    \/ Route
    \/ Final
    \/ Return

Spec == Init /\ [][Next]_vars

\* main() is one sequential thread: while a statement is left to execute,
\* one is executed
FairSpec == Spec /\ WF_vars(Next)

\* ------------------------------------------------- write_output on any text
\* any content a renderer may hand to write_output
WriterTexts == UNION {[1..k -> {"g", NL}] : k \in 0..(MaxChars + 1)}

\* main() about to call write_output, in place (l.97) or after the loop
\* (l.115), with any content
InitWrite ==
    /\ opts \in {o \in Options : /\ ~o.check
                                /\ o.input_files = <<"f1">>
                                /\ o.input_format = "Hurl"
                                /\ o.output_format = "Hurl"}
    /\ fs = [p \in Paths \cup {OutPath} |->
                IF p = "f1" THEN [readable |-> TRUE, data |-> <<>>] ELSE Absent]
    /\ fs0 = fs
    /\ \E t \in WriterTexts :
          IF opts.in_place
          THEN pc = "route" /\ idx = 1 /\ output = t /\ output_all = <<>>
          ELSE pc = "final" /\ idx = 2 /\ output = <<>> /\ output_all = t
    /\ content = <<>>
    /\ input = <<>>
    /\ hurl_file = <<>>
    /\ calls = <<>>
    /\ writes = <<>>
    /\ stdout = <<>>
    /\ stderr = <<>>
    /\ exit = <<>>

NextWrite ==
    \/ Route
    \/ Final
    \/ Return

SpecWrite == InitWrite /\ [][NextWrite]_vars

\* ------------------------------------------------------------ observations
N == Len(opts.input_files)
Ran == opts.parse = "Ok"
Exited == exit # <<>>

\* the warnings on standard error, in order
Warnings == SelectSeq(stderr, LAMBDA m : m.kind = "warn_lint")

\* the calls of one collaborator, in order
CallsOf(fn) == SelectSeq(calls, LAMBDA c : c.fn = fn)

\* the call c is a read, an adaptation or a parse that returned Err
FailedCall(c) ==
    \/ c.fn = "read_to_string" /\ ~fs[c.arg[1]].readable
    \/ c.fn = "curl_parse" /\ ~curl_parse(c.arg).ok
    \/ c.fn = "parse_hurl_file" /\ ~parse_hurl_file(c.arg).ok

\* what the file at path p is, judged from the file itself
Adapted(p) ==
    IF opts.input_format = "Hurl" THEN [ok |-> TRUE, s |-> fs[p].data, pos |-> 0]
    ELSE curl_parse(fs[p].data)
WellFormed(p) ==
    /\ fs[p].readable
    /\ Adapted(p).ok
    /\ parse_hurl_file(Adapted(p).s).ok
Findings(p) == check_hurl_file(parse_hurl_file(Adapted(p).s).doc)

\* the calls of the renderers, in order, and the text each one returned
FormatCalls ==
    SelectSeq(calls, LAMBDA c : c.fn \in {"format_text", "format_json", "format_html"})
RenderedBy(c) ==
    CASE c.fn = "format_text" -> format_text(c.arg)
      [] c.fn = "format_json" -> format_json(c.arg)
      [] OTHER                -> format_html(c.arg, opts.standalone)
Rendered == [k \in 1..Len(FormatCalls) |-> RenderedBy(FormatCalls[k])]

RECURSIVE Concat(_)
\* concatenation of a sequence of texts, left to right
Concat(ss) == IF ss = <<>> THEN <<>> ELSE Head(ss) \o Concat(Tail(ss))

\* the text ends with one line terminator and no more
EndsWithOneNL(t) == ends_with_nl(t) /\ ~ends_with_nl(SubSeq(t, 1, Len(t) - 1))

\* ------------------------------------------------------------------ claims
\* C1: when the read, the curl adaptation or the parse of input i fails, the
\* process leaves with status 2, the failed call is the last collaborator call
\* of the run, and no call, write or warning concerns an input after i.
C1_FirstFailureEndsRun ==
    \A k \in DOMAIN calls :
        FailedCall(calls[k]) =>
            /\ exit = <<EXIT_INVALID_INPUT>>
            /\ k = Len(calls)
            /\ \A j \in DOMAIN calls : calls[j].idx <= calls[k].idx
            /\ \A j \in DOMAIN writes : writes[j].idx <= calls[k].idx
            /\ Warnings = <<>>

\* C1 witness: two inputs, the first fails to parse, the run has left with 2
C1_Witness ==
    /\ N = 2
    /\ exit = <<EXIT_INVALID_INPUT>>
    /\ calls # <<>>
    /\ calls[Len(calls)].fn = "parse_hurl_file"
    /\ calls[Len(calls)].idx = 1
    /\ FailedCall(calls[Len(calls)])

\* C2: in check mode, when the lint engine returns k >= 1 findings for an
\* input, standard error carries exactly k warnings, the j-th one naming that
\* input file and the j-th finding, and the process leaves with status 3.
C2_OneWarningPerFinding ==
    \A c \in DOMAIN calls :
        LET lints == check_hurl_file(calls[c].arg) IN
        (Ran /\ opts.check /\ calls[c].fn = "check_hurl_file" /\ lints # <<>>) =>
            /\ Len(Warnings) = Len(lints)
            /\ \A j \in DOMAIN lints :
                  /\ Warnings[j].file = opts.input_files[calls[c].idx]
                  /\ Warnings[j].pos = lints[j]
            /\ \A i, j \in DOMAIN lints : i # j => lints[i] # lints[j]
            /\ exit = <<EXIT_LINT_ISSUE>>

\* C2 witness: an input with two findings was checked
C2_Witness ==
    /\ Ran /\ opts.check
    /\ exit = <<EXIT_LINT_ISSUE>>
    /\ Len(Warnings) = 2
    /\ Warnings[1].pos # Warnings[2].pos

\* C3 (as claimed): in check mode, a finding in any input of the list makes
\* the status 3 when every input is well-formed, and status 0 is produced only
\* when every input of the list was checked and had no finding.
C3_AnyFindingEscalates ==
    (Ran /\ opts.check /\ Exited) =>
        /\ ( (/\ \A i \in 1..N : WellFormed(opts.input_files[i])
              /\ \E i \in 1..N : Findings(opts.input_files[i]) # <<>>)
             => exit = <<EXIT_LINT_ISSUE>> )
        /\ ( exit = <<EXIT_OK>> =>
             \A i \in 1..N :
                /\ \E k \in DOMAIN calls :
                      calls[k].fn = "check_hurl_file" /\ calls[k].idx = i
                /\ Findings(opts.input_files[i]) = <<>> )

\* C4: in check mode, when every input is well-formed and has no finding (and
\* no write has failed), the process leaves with status 0 and no warning is
\* on standard error.
C4_CleanCheckExitsOk ==
    ( /\ Ran /\ opts.check /\ Exited
      /\ \A i \in 1..N : /\ WellFormed(opts.input_files[i])
                         /\ Findings(opts.input_files[i]) = <<>>
      /\ \A j \in DOMAIN writes : writes[j].result = "ok" )
    => (exit = <<EXIT_OK>> /\ Warnings = <<>>)

\* C4 witness: two clean inputs, check mode, the first has been linted
C4_Witness ==
    /\ Ran /\ opts.check /\ Exited
    /\ N = 2
    /\ \A i \in 1..N : /\ WellFormed(opts.input_files[i])
                       /\ Findings(opts.input_files[i]) = <<>>
    /\ CallsOf("check_hurl_file") # <<>>
    /\ fs[opts.input_files[1]].data # <<>>

\* C5: in transform mode with the combined policy, write_output is called at
\* most once, only after all N inputs were rendered in list order, for
\* opts.output_file (None: standard output), with the concatenation of the N
\* rendered outputs in list order; once the N inputs are rendered and main is
\* past l.115 it was called exactly once, and what standard output holds is
\* what that call wrote.
C5_CombinedWrittenOnce ==
    (Ran /\ ~opts.check /\ ~opts.in_place) =>
        /\ Len(writes) <= 1
        /\ writes # <<>> =>
              /\ Len(FormatCalls) = N
              /\ \A k \in 1..N : FormatCalls[k].idx = k
              /\ writes[1].idx = 0
              /\ writes[1].filename = opts.output_file
              /\ writes[1].content = Concat(Rendered)
              /\ (writes[1].result = "ok" /\ opts.output_file = None)
                    => stdout = writes[1].bytes
              /\ (writes[1].result = "ok" /\ opts.output_file # None)
                    => (stdout = <<>> /\ fs[opts.output_file].data = writes[1].bytes)
        /\ (pc \in {"return", "exited"} /\ Len(FormatCalls) = N) => Len(writes) = 1
        /\ pc \notin {"return", "exited"} => (writes = <<>> /\ stdout = <<>>)

\* C5 witness: two inputs with different non-empty outputs written once to
\* standard output
C5_Witness ==
    /\ Ran /\ ~opts.check /\ ~opts.in_place
    /\ exit = <<EXIT_OK>>
    /\ N = 2
    /\ Len(Rendered) = 2
    /\ Rendered[1] # <<>> /\ Rendered[2] # <<>> /\ Rendered[1] # Rendered[2]
    /\ opts.output_file = None
    /\ Len(writes) = 1
    /\ stdout # <<>>

\* C6: in transform mode with the in-place policy, the k-th write_output call
\* is made for input k, targets the path of input k and carries the rendered
\* output of input k alone; output_all stays empty, nothing reaches standard
\* output or the path of opts.output_file; and when no read, parse or write
\* has failed and the process has left, exactly N calls were made.
C6_InPlaceWritesEachInput ==
    (Ran /\ ~opts.check /\ opts.in_place) =>
        /\ output_all = <<>>
        /\ stdout = <<>>
        /\ fs[OutPath] = Absent
        /\ Len(writes) <= Len(Rendered)
        /\ \A k \in DOMAIN writes :
              /\ writes[k].idx = k
              /\ writes[k].filename = opts.input_files[k]
              /\ writes[k].content = Rendered[k]
        /\ ( /\ Exited
             /\ \A k \in DOMAIN calls : ~FailedCall(calls[k])
             /\ \A k \in DOMAIN writes : writes[k].result = "ok" )
           => (Len(writes) = N /\ exit = <<EXIT_OK>>)

\* C6 witness: two different files rewritten in place with different outputs
C6_Witness ==
    /\ Ran /\ ~opts.check /\ opts.in_place
    /\ exit = <<EXIT_OK>>
    /\ N = 2
    /\ opts.input_files[1] # opts.input_files[2]
    /\ Len(writes) = 2
    /\ writes[1].content # writes[2].content
    /\ opts.output_file = OutPath

\* C7 (as claimed): the bytes of every write end with exactly one line
\* terminator: content without a final terminator gets one appended, content
\* with a final terminator is written unchanged.
C7_ExactlyOneTerminator ==
    \A k \in DOMAIN writes :
        /\ EndsWithOneNL(writes[k].bytes)
        /\ ~ends_with_nl(writes[k].content)
              => writes[k].bytes = writes[k].content \o <<NL>>
        /\ ends_with_nl(writes[k].content) => writes[k].bytes = writes[k].content

\* C7 (amended): the bytes of every write end with a line terminator: content
\* without a final terminator (the empty content too) gets exactly one
\* appended, content with a final terminator is written unchanged; the bytes
\* end with exactly one terminator when the content ends with at most one,
\* and the destination of the latest successful write holds exactly the bytes.
C7_TerminatorAppendedWhenMissing ==
    \A k \in DOMAIN writes :
        /\ ends_with_nl(writes[k].bytes)
        /\ ~ends_with_nl(writes[k].content)
              => /\ writes[k].bytes = writes[k].content \o <<NL>>
                 /\ EndsWithOneNL(writes[k].bytes)
        /\ ends_with_nl(writes[k].content) => writes[k].bytes = writes[k].content
        /\ EndsWithOneNL(writes[k].content) => EndsWithOneNL(writes[k].bytes)
        /\ (k = Len(writes) /\ writes[k].result = "ok") =>
              IF writes[k].filename = None THEN stdout = writes[k].bytes
              ELSE fs[writes[k].filename].data = writes[k].bytes

\* C7 witness: content that already ends with one terminator was written
\* unchanged to a file
C7_Witness ==
    /\ writes # <<>>
    /\ Len(writes[1].content) >= 2
    /\ EndsWithOneNL(writes[1].content)
    /\ writes[1].result = "ok"
    /\ writes[1].filename # None
    /\ fs[writes[1].filename].data = writes[1].content

\* C8 (as claimed): every failed write, in place or combined, ends the run
\* with status 1, and after a failed in-place write of input i no later input
\* is read.
C8_WriteFailureExitsError ==
    \A k \in DOMAIN writes :
        writes[k].result # "ok" =>
            /\ exit = <<EXIT_ERROR>>
            /\ \A j \in DOMAIN calls :
                  writes[k].idx > 0 => calls[j].idx <= writes[k].idx

\* C9: in check mode, whatever the output format, neither lint_hurl_file nor
\* a format function is ever called: the only call made on a parsed document
\* is check_hurl_file, and no output is produced.
C9_CheckNeverRenders ==
    (Ran /\ opts.check) =>
        /\ \A k \in DOMAIN calls :
              calls[k].fn \in {"read_to_string", "curl_parse", "parse_hurl_file",
                               "check_hurl_file"}
        /\ output = <<>>
        /\ output_all = <<>>

\* C9 witness: check mode with the JSON format configured has linted a
\* non-empty document
C9_Witness ==
    /\ Ran /\ opts.check
    /\ opts.output_format = "Json"
    /\ Exited
    /\ CallsOf("check_hurl_file") # <<>>
    /\ hurl_file # <<>>

\* C10 (as claimed): the parse diagnostic is formatted against the text that
\* was given to the parser: the raw content for Hurl input, the adapted text
\* for curl input.
C10_DiagnosticAgainstParsedText ==
    \A k \in DOMAIN stderr :
        stderr[k].kind = "error_parsing" =>
            /\ calls[Len(calls)].fn = "parse_hurl_file"
            /\ stderr[k].text = calls[Len(calls)].arg
            /\ stderr[k].pos \in 1..Len(stderr[k].text)

\* the document the parser returned for the input at loop position i
ParsedAt(i) ==
    LET k == CHOOSE j \in DOMAIN calls :
                 calls[j].fn = "parse_hurl_file" /\ calls[j].idx = i
    IN parse_hurl_file(calls[k].arg).doc

\* the positions in calls of the lint_hurl_file calls for loop position i
CanonicalizedAt(i) ==
    {j \in DOMAIN calls : calls[j].fn = "lint_hurl_file" /\ calls[j].idx = i}

\* C11: in transform mode every renderer call is the one of the configured
\* format; for canonical text lint_hurl_file is called exactly once for that
\* input, on the parsed document and before format_text, and format_text is
\* given its result; for JSON and HTML lint_hurl_file is never called and the
\* renderer is given the parsed document itself.
C11_CanonicalizeOnlyForText ==
    (Ran /\ ~opts.check) =>
        \A k \in DOMAIN calls :
            LET c == calls[k] IN
            /\ c.fn = "lint_hurl_file" => opts.output_format = "Hurl"
            /\ c.fn = "format_text" =>
                  /\ opts.output_format = "Hurl"
                  /\ Cardinality(CanonicalizedAt(c.idx)) = 1
                  /\ \A j \in CanonicalizedAt(c.idx) :
                        j < k /\ calls[j].arg = ParsedAt(c.idx)
                  /\ c.arg = lint_hurl_file(ParsedAt(c.idx))
            /\ c.fn = "format_json" =>
                  /\ opts.output_format = "Json"
                  /\ CanonicalizedAt(c.idx) = {}
                  /\ c.arg = ParsedAt(c.idx)
            /\ c.fn = "format_html" =>
                  /\ opts.output_format = "Html"
                  /\ CanonicalizedAt(c.idx) = {}
                  /\ c.arg = ParsedAt(c.idx)

\* C11 witness: a document with a lint issue was canonicalized and the
\* document given to format_text differs from the parsed one
C11_Witness ==
    /\ Ran /\ ~opts.check
    /\ \E k \in DOMAIN calls :
          /\ calls[k].fn = "format_text"
          /\ calls[k].arg # ParsedAt(calls[k].idx)
          /\ Cardinality(CanonicalizedAt(calls[k].idx)) = 1

\* C12 (as claimed): status 3 is produced only in check mode and only when
\* every input of the list is readable and parses.
C12_LintStatusOnlyWhenAllParse ==
    exit = <<EXIT_LINT_ISSUE>> =>
        /\ Ran
        /\ opts.check
        /\ \A i \in 1..N : WellFormed(opts.input_files[i])

\* C13: when cli::options::parse() fails no collaborator is called, no file
\* changes and write_output is never called; for Info the message is on
\* standard output, nothing is on standard error and the status is 0; for
\* Error the message is on standard error, nothing is on standard output and
\* the status is 1.
C13_OptionErrorsTouchNothing ==
    ~Ran =>
        /\ calls = <<>>
        /\ writes = <<>>
        /\ fs = fs0
        /\ Len(exit) <= 1
        /\ pc # "options" =>
              IF opts.parse = "Info"
              THEN stdout = Message /\ stderr = <<>> /\ exit = <<EXIT_OK>>
              ELSE /\ stdout = <<>>
                   /\ stderr = <<Msg("options", Message, None, 0)>>
                   /\ exit = <<EXIT_ERROR>>
        /\ pc = "options" => (stdout = <<>> /\ stderr = <<>> /\ exit = <<>>)

\* C13 witness: the informational message was printed and the process left
C13_Witness ==
    /\ opts.parse = "Info"
    /\ pc = "exited"
    /\ stdout = Message
    /\ exit = <<EXIT_OK>>

\* C14: in transform mode with the combined policy, once a read, an
\* adaptation or a parse has failed, write_output is never called and nothing
\* is on standard output or at the path of opts.output_file, whatever
\* output_all holds.
C14_NothingWrittenAfterFailure ==
    ( /\ Ran /\ ~opts.check /\ ~opts.in_place
      /\ \E k \in DOMAIN calls : FailedCall(calls[k]) )
    => /\ writes = <<>>
       /\ stdout = <<>>
       /\ fs = fs0
       /\ exit = <<EXIT_INVALID_INPUT>>

\* C14 witness: the second input failed after the first was rendered into
\* output_all
C14_Witness ==
    /\ Ran /\ ~opts.check /\ ~opts.in_place
    /\ N = 2
    /\ output_all # <<>>
    /\ calls # <<>>
    /\ calls[Len(calls)].idx = 2
    /\ FailedCall(calls[Len(calls)])
    /\ opts.output_file = OutPath
    /\ exit = <<EXIT_INVALID_INPUT>>

\* C15 (as claimed): in check mode write_output is never called and no
\* file and no byte of standard output changes, for every input list (the
\* empty one too) and every destination policy.
C15_CheckNeverWrites ==
    (Ran /\ opts.check) =>
        /\ writes = <<>>
        /\ stdout = <<>>
        /\ fs = fs0

\* C16: in check mode with two or more inputs no call concerns an input
\* after the first; the check_hurl_file call is the last call of the run, the
\* process has left when it is logged, with status 0 when it returned no
\* finding and status 3 otherwise, and nothing was written.
C16_CheckStopsAtFirstInput ==
    (Ran /\ opts.check /\ N >= 2) =>
        /\ \A k \in DOMAIN calls : calls[k].idx = 1
        /\ \A k \in DOMAIN calls :
              calls[k].fn = "check_hurl_file" =>
                 /\ k = Len(calls)
                 /\ pc = "exited"
                 /\ exit = <<IF check_hurl_file(calls[k].arg) = <<>>
                             THEN EXIT_OK ELSE EXIT_LINT_ISSUE>>
                 /\ writes = <<>>

\* C16 witness: the first of two inputs is clean, the second one has a
\* finding and is never read, the status is 0
C16_Witness ==
    /\ Ran /\ opts.check /\ N = 2
    /\ opts.input_files[2] # opts.input_files[1]
    /\ exit = <<EXIT_OK>>
    /\ CallsOf("check_hurl_file") # <<>>
    /\ WellFormed(opts.input_files[2])
    /\ Findings(opts.input_files[2]) # <<>>

\* the loop position at which an in-place run ended early
EndedEarlyAt(i) ==
    /\ Ran /\ ~opts.check /\ opts.in_place
    /\ Exited /\ exit # <<EXIT_OK>>
    /\ i = idx

\* the file of input k holds what write_output wrote for input k: the
\* rendered output of input k, normalised
HoldsOwnOutput(k) ==
    /\ k <= Len(writes)
    /\ writes[k].content = Rendered[k]
    /\ fs[opts.input_files[k]].data = writes[k].bytes

\* C17 (as claimed): when an in-place run ends early at input i, the file
\* of every input before i holds that input's own rendered output and the
\* file of every input after i is as it was when the run started.
C17_EarlyExitLeavesOthersAlone ==
    \A i \in 1..N :
        EndedEarlyAt(i) =>
            /\ \A k \in 1..(i - 1) : HoldsOwnOutput(k)
            /\ \A k \in (i + 1)..N : fs[opts.input_files[k]] = fs0[opts.input_files[k]]

\* the paths of the inputs at the loop positions of the set ks
PathsAt(ks) == {opts.input_files[k] : k \in ks}

\* C17 (amended): when an in-place run ends early at input i, the file of
\* every input before i whose path is not listed again up to position i holds
\* that input's own rendered output, and the file of every input after i
\* whose path is not listed at a position up to i is as it was when the run
\* started.
C17_EarlyExitLeavesOtherPathsAlone ==
    \A i \in 1..N :
        EndedEarlyAt(i) =>
            /\ \A k \in 1..(i - 1) :
                  opts.input_files[k] \notin PathsAt((k + 1)..i) => HoldsOwnOutput(k)
            /\ \A k \in (i + 1)..N :
                  opts.input_files[k] \notin PathsAt(1..i) =>
                     fs[opts.input_files[k]] = fs0[opts.input_files[k]]

\* C17 witness: the second input failed after the first file was rewritten
\* with different bytes
C17_Witness ==
    /\ EndedEarlyAt(2)
    /\ opts.input_files[1] # opts.input_files[2]
    /\ HoldsOwnOutput(1)
    /\ fs[opts.input_files[1]] # fs0[opts.input_files[1]]

\* the reads are made in list order, one per loop position, and the input
\* before a read has been through every stage: it was rendered, none of its
\* calls comes after the read, and in place its file was written
ReadsInOrder ==
    LET reads == CallsOf("read_to_string")
        FormatFns == {"format_text", "format_json", "format_html"}
    IN  /\ \A k \in DOMAIN reads :
              /\ reads[k].idx = k
              /\ reads[k].arg = <<opts.input_files[k]>>
        /\ \A k \in DOMAIN calls :
              (calls[k].fn = "read_to_string" /\ calls[k].idx > 1) =>
                 LET i == calls[k].idx - 1
                 IN  /\ \E j \in 1..(k - 1) :
                           calls[j].idx = i /\ calls[j].fn \in FormatFns
                     /\ \A j \in (k + 1)..Len(calls) : calls[j].idx > i
                     /\ opts.in_place =>
                           /\ i <= Len(writes)
                           /\ writes[i].idx = i
                           /\ writes[i].filename = opts.input_files[i]
                           /\ writes[i].result = "ok"

\* C18: every run of main() ends with an exit status; the status, once set, is
\* single and never changes; the inputs are read in list order, each list
\* position at most once, and input i+1 is read only after input i has been
\* through every stage, its in-place write included.
C18_TerminatesOnceInOrder ==
    /\ <>Exited
    /\ [](Len(exit) <= 1)
    /\ [][exit # <<>> => exit' = exit]_vars
    /\ []ReadsInOrder

\* C18 witness: a finished in-place run that read two different inputs and
\* wrote both
C18_Witness ==
    /\ Ran /\ opts.in_place /\ N = 2
    /\ opts.input_files[1] # opts.input_files[2]
    /\ exit = <<EXIT_OK>>
    /\ Len(CallsOf("read_to_string")) = 2
    /\ Len(writes) = 2

====
